---- MODULE Spec2Model ----
(***************************************************************************)
(* Workspace Optimizer Bot (src/workspace-optimizer-bot.py).               *)
(*                                                                         *)
(* A Streamlit script: every user interaction reruns main() from the top.  *)
(* A rerun renders the sidebar (storing non-empty keys in session state),  *)
(* collects the workspace preferences, and, when the generate button was   *)
(* pressed and the three presence checks pass, runs the four-agent         *)
(* pipeline of generate_workspace_report, stores the report and the image  *)
(* in session state and renders them.                                      *)
(*                                                                         *)
(* Text is modelled as a sequence of tokens (strings); concatenation of    *)
(* Python strings and f-string interpolation is \o on token sequences.     *)
(* Each agent.run call is a blocking external call: the model has one      *)
(* action per return (or failure) of such a call, and the code between two *)
(* calls belongs to the action of the return that precedes it.             *)
(***************************************************************************)
EXTENDS Integers, Sequences, FiniteSets, TLC

\* Cap on the number of pipeline runs (accepted submissions) explored in a session.
MaxRuns == 2

\* Texts an external model call may return (they differ in content and length).
Texts == {<<"alpha">>, <<"beta", "beta">>}

\* Values a user may type in the key fields; "" is the empty field.  The two
\* fields are handled by the same code: replacing a stored key by another is
\* explored on the first.
OpenAIKeyValues == {"sk-1", "sk-2"}
SerpKeyValues == {"serp-1"}

\* Files a user may have in the uploader; NoFile is the empty uploader
\* (st.file_uploader returns None).
NoFile == "None"
Images == {"desk1.jpg", "desk2.png"}

FocusAreas == {"Posture Correction", "Desk Organization", "Full Ergonomic Assessment"}

ImprovementGoals ==
    {"Reduce Strain", "Boost Productivity", "Create a Calmer Space", "Maximize Space Efficiency"}

VARIABLES
    openai_api_key,     \* value of the sidebar text input "OpenAI API Key"
    serp_api_key,       \* value of the sidebar text input "Serp API Key"
    uploaded_image,     \* value of the file uploader
    focus_area,         \* value of the first selectbox
    improvement_goal,   \* value of the second selectbox
    session_state,      \* st.session_state: a function from the keys present to their values
    pc,                 \* position of the script run
    button,             \* value st.button returned in the most recent rerun
    issue_section,      \* locals of the most recent call of generate_workspace_report
    risk_section,
    fix_section,
    product_section,
    calls,              \* agent.run calls issued by the most recent rerun, in order
    page,               \* what the most recent rerun rendered below the form
    entered,            \* last non-empty value typed in each key field ("" if none yet)
    runs                \* pipeline runs started in this session

widgets == <<openai_api_key, serp_api_key, uploaded_image, focus_area, improvement_goal>>

locals == <<issue_section, risk_section, fix_section, product_section>>

vars == <<widgets, session_state, pc, button, locals, calls, page, entered, runs>>

Stages == <<"Detect", "Evaluate", "Recommend", "FindProducts">>

Running == {"Detect", "Evaluate", "Recommend", "FindProducts"}

Stopped == {"idle", "Done", "Failed"}

----------------------------------------------------------------------------
(* session state *)

Has(ss, k) == k \in DOMAIN ss

\* st.session_state.k = v
Store(ss, k, v) == [x \in DOMAIN ss \cup {k} |-> IF x = k THEN v ELSE ss[x]]

\* Variant of render_sidebar: the fields are stored whatever they hold.
RenderSidebarStoresEmptyFields(ss, openai, serp) ==
    Store(Store(ss, "openai_api_key", openai), "serp_api_key", serp)

\* render_sidebar: a key field is stored only when it is non-empty.
render_sidebar(ss, openai, serp) ==
    LET s1 == IF openai # "" THEN Store(ss, "openai_api_key", openai) ELSE ss
    IN  IF serp # "" THEN Store(s1, "serp_api_key", serp) ELSE s1

render_workspace_setup_preferences(image, focus, goal) ==
    [uploaded_image |-> image, focus_area |-> focus, improvement_goal |-> goal]

\* The dict main holds while generate_workspace_report runs: the widgets do
\* not change during a script run.
user_workspace_preferences ==
    render_workspace_setup_preferences(uploaded_image, focus_area, improvement_goal)

----------------------------------------------------------------------------
(* validation *)

MsgOpenAI == "Please provide your OpenAI API key in the sidebar."
MsgSerp == "Please provide your SerpAPI key in the sidebar."
MsgImage == "Please upload a workspace photo to proceed."

\* Variant of Validate: the check of the uploaded image is left out.
ValidateWithoutImageCheck(ss, prefs) ==
    IF "openai_api_key" \notin DOMAIN ss THEN <<MsgOpenAI>>
    ELSE IF "serp_api_key" \notin DOMAIN ss THEN <<MsgSerp>>
    ELSE <<>>

\* Variant of Validate: independent ifs instead of an if/elif chain, so that
\* every failing check reports.
ValidateReportsEveryFailure(ss, prefs) ==
    (IF "openai_api_key" \notin DOMAIN ss THEN <<MsgOpenAI>> ELSE <<>>)
        \o (IF "serp_api_key" \notin DOMAIN ss THEN <<MsgSerp>> ELSE <<>>)
        \o (IF prefs.uploaded_image = NoFile THEN <<MsgImage>> ELSE <<>>)

\* The if/elif chain of main: the st.error calls made, in order.
Validate(ss, prefs) ==
    IF ~Has(ss, "openai_api_key") THEN <<MsgOpenAI>>
    ELSE IF ~Has(ss, "serp_api_key") THEN <<MsgSerp>>
    ELSE IF prefs.uploaded_image = NoFile THEN <<MsgImage>>
    ELSE <<>>

----------------------------------------------------------------------------
(* generate_workspace_report: prompts, calls, assembly *)

DetectPrompt == <<"Analyze the desk image and report ergonomic issues.">>

\* Variant of fix_prompt: the detected issues are left out of the prompt.
FixPromptWithoutIssues(issue, focus, goal) ==
    <<"\n\nFocus: ", focus, "\nGoal: ", goal>>

fix_prompt(issue, focus, goal) ==
    issue \o <<"\n\nFocus: ", focus, "\nGoal: ", goal>>

\* One agent.run call: the agent, the prompt, the images attached, the model
\* key the agent was built with and the key of its search tool ("" if none).
Call(agent, prompt, images, ss, search) ==
    [agent |-> agent, prompt |-> prompt, images |-> images,
     api_key |-> ss["openai_api_key"],
     search_key |-> IF search THEN ss["serp_api_key"] ELSE ""]

DetectCall(ss, prefs) ==
    Call("Posture & Setup Analyzer", DetectPrompt, <<prefs.uploaded_image>>, ss, FALSE)

EvaluateCall(ss, issue) ==
    Call("Ergonomic Risk Evaluator", issue, <<>>, ss, FALSE)

RecommendCall(ss, issue, prefs) ==
    Call("Fix Advisor", fix_prompt(issue, prefs.focus_area, prefs.improvement_goal),
         <<>>, ss, FALSE)

\* Variant of FindProductsCall: the product finder is given the fix advisor's
\* answer instead of fix_prompt.
FindProductsCallWithFixSection(ss, issue, fix, prefs) ==
    Call("Workspace Product Finder", fix, <<>>, ss, TRUE)

FindProductsCall(ss, issue, fix, prefs) ==
    Call("Workspace Product Finder",
         fix_prompt(issue, prefs.focus_area, prefs.improvement_goal), <<>>, ss, TRUE)

ReportHeader == <<"## Workspace Optimization Report\n\n">>
Separator == <<"\n\n---\n\n">>

summary_comment ==
    <<"### Ergonomic Summary\n\n",
      "> Your workspace has great potential. With just a few adjustments, you can improve posture, reduce fatigue, and make your setup truly ergonomic.\n">>

\* Variant of final_report: the fix section is placed before the risk section.
FinalReportFixBeforeRisk(issue, risk, fix, product) ==
    <<"## Workspace Optimization Report\n\n">> \o issue \o <<"\n\n---\n\n">>
        \o fix \o <<"\n\n---\n\n">> \o risk \o <<"\n\n---\n\n">>
        \o product \o <<"\n\n---\n\n">> \o summary_comment

final_report(issue, risk, fix, product) ==
    ReportHeader \o issue \o Separator \o risk \o Separator
        \o fix \o Separator \o product \o Separator \o summary_comment

----------------------------------------------------------------------------
(* display *)

NoText == <<>>

BlankPage ==
    [errors |-> <<>>, exception |-> FALSE, image |-> NoFile,
     report |-> NoText, download |-> NoText]

\* Variant of Display: the stored results are rendered only when no
\* validation message was shown.
DisplayUnlessError(ss, errors) ==
    IF errors = <<>> /\ "workspace_report" \in DOMAIN ss /\ "uploaded_image" \in DOMAIN ss
    THEN [errors |-> errors, exception |-> FALSE,
          image |-> ss["uploaded_image"],
          report |-> ss["workspace_report"],
          download |-> ss["workspace_report"]]
    ELSE [BlankPage EXCEPT !.errors = errors]

\* Lines 229-243 of main: the stored image, the stored report and the download
\* button are rendered when both keys are in session state.
Display(ss, errors) ==
    IF Has(ss, "workspace_report") /\ Has(ss, "uploaded_image")
    THEN [errors |-> errors, exception |-> FALSE,
          image |-> ss["uploaded_image"],
          report |-> ss["workspace_report"],
          download |-> ss["workspace_report"]]
    ELSE [BlankPage EXCEPT !.errors = errors]

\* An exception that leaves the script: Streamlit renders the exception and
\* nothing of the rest of the script.
ExceptionPage == [BlankPage EXCEPT !.exception = TRUE]

----------------------------------------------------------------------------
Init ==
    /\ openai_api_key = ""
    /\ serp_api_key = ""
    /\ uploaded_image = NoFile
    /\ focus_area = "Posture Correction"
    /\ improvement_goal = "Reduce Strain"
    /\ session_state = << >>
    /\ pc = "idle"
    /\ button = FALSE
    /\ issue_section = NoText
    /\ risk_section = NoText
    /\ fix_section = NoText
    /\ product_section = NoText
    /\ calls = <<>>
    /\ page = BlankPage
    /\ entered = [openai_api_key |-> "", serp_api_key |-> ""]
    /\ runs = 0

\* One run of main() with the widget values of the next state; b is what
\* st.button returns.  Either the script ends in this step (no press, or a
\* presence check fails) or it blocks in the first agent.run call.
main(b) ==
    LET ss == render_sidebar(session_state, openai_api_key', serp_api_key')
        prefs == render_workspace_setup_preferences(uploaded_image', focus_area',
                                                    improvement_goal')
        errors == IF b THEN Validate(ss, prefs) ELSE <<>>
    IN  /\ pc \in Stopped
        /\ session_state' = ss
        /\ button' = b
        /\ issue_section' = NoText
        /\ risk_section' = NoText
        /\ fix_section' = NoText
        /\ product_section' = NoText
        /\ IF b /\ errors = <<>>
           THEN /\ runs < MaxRuns
                /\ runs' = runs + 1
                /\ calls' = <<DetectCall(ss, prefs)>>
                /\ page' = BlankPage
                /\ pc' = "Detect"
           ELSE /\ runs' = runs
                /\ calls' = <<>>
                /\ page' = Display(ss, errors)
                /\ pc' = "idle"

\* The user edits the OpenAI key field (possibly emptying it).
TypeOpenAIKey(v) ==
    /\ openai_api_key' = v
    /\ entered' = [entered EXCEPT !.openai_api_key = IF v # "" THEN v ELSE @]
    /\ UNCHANGED <<serp_api_key, uploaded_image, focus_area, improvement_goal>>
    /\ main(FALSE)

TypeSerpKey(v) ==
    /\ serp_api_key' = v
    /\ entered' = [entered EXCEPT !.serp_api_key = IF v # "" THEN v ELSE @]
    /\ UNCHANGED <<openai_api_key, uploaded_image, focus_area, improvement_goal>>
    /\ main(FALSE)

\* The user uploads a file, replaces it, or removes it (u = NoFile).
UploadImage(u) ==
    /\ uploaded_image' = u
    /\ UNCHANGED <<openai_api_key, serp_api_key, focus_area, improvement_goal, entered>>
    /\ main(FALSE)

SelectFocusArea(f) ==
    /\ focus_area' = f
    /\ UNCHANGED <<openai_api_key, serp_api_key, uploaded_image, improvement_goal, entered>>
    /\ main(FALSE)

SelectImprovementGoal(g) ==
    /\ improvement_goal' = g
    /\ UNCHANGED <<openai_api_key, serp_api_key, uploaded_image, focus_area, entered>>
    /\ main(FALSE)

\* The user presses the generate button.
PressGenerate ==
    /\ UNCHANGED <<widgets, entered>>
    /\ main(TRUE)

DetectReturns(t) ==
    /\ pc = "Detect"
    /\ issue_section' = t
    /\ calls' = Append(calls, EvaluateCall(session_state, issue_section'))
    /\ pc' = "Evaluate"
    /\ UNCHANGED <<widgets, session_state, button, risk_section, fix_section,
                   product_section, page, entered, runs>>

\* Variant of EvaluateReturns: the fix advisor is skipped.
EvaluateReturnsSkipsFixAdvisor(t) ==
    /\ pc = "Evaluate"
    /\ risk_section' = t
    /\ calls' = Append(calls, FindProductsCall(session_state, issue_section, fix_section,
                                               user_workspace_preferences))
    /\ pc' = "FindProducts"
    /\ UNCHANGED <<widgets, session_state, button, issue_section, fix_section,
                   product_section, page, entered, runs>>

EvaluateReturns(t) ==
    /\ pc = "Evaluate"
    /\ risk_section' = t
    /\ calls' = Append(calls, RecommendCall(session_state, issue_section,
                                            user_workspace_preferences))
    /\ pc' = "Recommend"
    /\ UNCHANGED <<widgets, session_state, button, issue_section, fix_section,
                   product_section, page, entered, runs>>

RecommendReturns(t) ==
    /\ pc = "Recommend"
    /\ fix_section' = t
    /\ calls' = Append(calls, FindProductsCall(session_state, issue_section, fix_section',
                                               user_workspace_preferences))
    /\ pc' = "FindProducts"
    /\ UNCHANGED <<widgets, session_state, button, issue_section, risk_section,
                   product_section, page, entered, runs>>

\* Variant of FindProductsReturns: only the report is stored.
FindProductsReturnsForgetsImage(t) ==
    /\ pc = "FindProducts"
    /\ product_section' = t
    /\ session_state' =
           Store(session_state, "workspace_report",
                 final_report(issue_section, risk_section, fix_section, product_section'))
    /\ page' = Display(session_state', <<>>)
    /\ pc' = "Done"
    /\ UNCHANGED <<widgets, button, issue_section, risk_section, fix_section, calls,
                   entered, runs>>

\* The last call returns: the report is assembled and returned, main stores
\* it with the submitted image and renders the result.
FindProductsReturns(t) ==
    /\ pc = "FindProducts"
    /\ product_section' = t
    /\ session_state' =
           Store(Store(session_state, "workspace_report",
                       final_report(issue_section, risk_section, fix_section, product_section')),
                 "uploaded_image", user_workspace_preferences["uploaded_image"])
    /\ page' = Display(session_state', <<>>)
    /\ pc' = "Done"
    /\ UNCHANGED <<widgets, button, issue_section, risk_section, fix_section, calls,
                   entered, runs>>

\* Variant of StageFails: the failure is caught and the sections obtained so
\* far are stored as a report.
StageFailsStoresPartialReport ==
    /\ pc \in Running
    /\ pc' = "Failed"
    /\ session_state' =
           Store(Store(session_state, "workspace_report",
                       final_report(issue_section, risk_section, fix_section, product_section)),
                 "uploaded_image", user_workspace_preferences["uploaded_image"])
    /\ page' = Display(session_state', <<>>)
    /\ issue_section' = NoText
    /\ risk_section' = NoText
    /\ fix_section' = NoText
    /\ product_section' = NoText
    /\ UNCHANGED <<widgets, button, calls, entered, runs>>

\* The pending agent.run call raises: nothing catches it, the script run ends.
StageFails ==
    /\ pc \in Running
    /\ pc' = "Failed"
    /\ page' = ExceptionPage
    /\ issue_section' = NoText
    /\ risk_section' = NoText
    /\ fix_section' = NoText
    /\ product_section' = NoText
    /\ UNCHANGED <<widgets, session_state, button, calls, entered, runs>>

Next ==
    \/ \E v \in OpenAIKeyValues \cup {""} : TypeOpenAIKey(v)
    \/ \E v \in SerpKeyValues \cup {""} : TypeSerpKey(v)
    \/ \E u \in Images \cup {NoFile} : UploadImage(u)
    \/ \E f \in FocusAreas : SelectFocusArea(f)
    \/ \E g \in ImprovementGoals : SelectImprovementGoal(g)
    \/ PressGenerate
    \/ \E t \in Texts :
          \/ DetectReturns(t)
          \/ EvaluateReturns(t)
          \/ RecommendReturns(t)
          \/ FindProductsReturns(t)
    \/ StageFails

Spec == Init /\ [][Next]_vars

----------------------------------------------------------------------------
(* Vocabulary of the properties *)

\* sub occurs in s as a contiguous run of tokens.
Contains(s, sub) ==
    \E i \in 0..(Len(s) - Len(sub)) : SubSeq(s, i + 1, i + Len(sub)) = sub

OpenAIMissing == "openai_api_key" \notin DOMAIN session_state
SerpMissing == "serp_api_key" \notin DOMAIN session_state
ImageMissing == uploaded_image = NoFile

ReportStored == "workspace_report" \in DOMAIN session_state
ImageStored == "uploaded_image" \in DOMAIN session_state

\* The report and image entries of a session state.
Results(ss) == [k \in DOMAIN ss \cap {"workspace_report", "uploaded_image"} |-> ss[k]]

\* Number of agent.run calls of the current pipeline run that have returned.
Returned ==
    (IF issue_section # <<>> THEN 1 ELSE 0) + (IF risk_section # <<>> THEN 1 ELSE 0)
        + (IF fix_section # <<>> THEN 1 ELSE 0) + (IF product_section # <<>> THEN 1 ELSE 0)

AgentOrder ==
    <<"Posture & Setup Analyzer", "Ergonomic Risk Evaluator", "Fix Advisor",
      "Workspace Product Finder">>

----------------------------------------------------------------------------
\* C1: when the generate button is pressed while the model-provider key, the
\* search-provider key or the image is missing, no agent.run call is made (the
\* script ends without entering generate_workspace_report) and the message
\* shown is the message of one of the missing values.
C1_RejectedSubmissionMakesNoCall ==
    (button /\ (OpenAIMissing \/ SerpMissing \/ ImageMissing)) =>
        /\ calls = <<>>
        /\ pc = "idle"
        /\ Len(page.errors) >= 1
        /\ \A i \in 1..Len(page.errors) :
              \/ OpenAIMissing /\ page.errors[i] = "Please provide your OpenAI API key in the sidebar."
              \/ SerpMissing /\ page.errors[i] = "Please provide your SerpAPI key in the sidebar."
              \/ ImageMissing /\ page.errors[i] = "Please upload a workspace photo to proceed."

\* A submission without an image is rejected after an earlier run has completed.
C1_Witness ==
    /\ button /\ ImageMissing /\ ~OpenAIMissing /\ ~SerpMissing
    /\ runs >= 1 /\ ReportStored
    /\ page.errors = <<MsgImage>>

\* C7: a press of the generate button shows at most one validation message,
\* chosen by priority (model key, then search key, then image), and the
\* pipeline is entered exactly when nothing is missing.
C7_ValidationPriority ==
    button =>
        /\ Len(page.errors) <= 1
        /\ OpenAIMissing => page.errors = <<"Please provide your OpenAI API key in the sidebar.">>
        /\ (~OpenAIMissing /\ SerpMissing) =>
               page.errors = <<"Please provide your SerpAPI key in the sidebar.">>
        /\ (~OpenAIMissing /\ ~SerpMissing /\ ImageMissing) =>
               page.errors = <<"Please upload a workspace photo to proceed.">>
        /\ (calls # <<>>) <=> (~OpenAIMissing /\ ~SerpMissing /\ ~ImageMissing)

\* Everything is missing and only the first message is shown.
C7_Witness ==
    /\ button /\ OpenAIMissing /\ SerpMissing /\ ImageMissing
    /\ page.errors = <<MsgOpenAI>>

\* C2: the report stored by a completed run is the header, then the four stage
\* texts in pipeline order, each followed by the separator, then the closing
\* remark, and nothing else.
C2_ReportIsOrderedConcatenation ==
    pc = "Done" =>
        session_state["workspace_report"] =
            <<"## Workspace Optimization Report\n\n">>
                \o issue_section \o <<"\n\n---\n\n">>
                \o risk_section \o <<"\n\n---\n\n">>
                \o fix_section \o <<"\n\n---\n\n">>
                \o product_section \o <<"\n\n---\n\n">>
                \o <<"### Ergonomic Summary\n\n",
                     "> Your workspace has great potential. With just a few adjustments, you can improve posture, reduce fatigue, and make your setup truly ergonomic.\n">>

\* A completed run whose neighbouring stage texts differ.
C2_Witness ==
    /\ pc = "Done"
    /\ issue_section = <<"alpha">> /\ risk_section = <<"beta", "beta">>
    /\ fix_section = <<"alpha">> /\ product_section = <<"beta", "beta">>

\* C3: the calls of a pipeline run are issued in the order Detect, Evaluate,
\* Recommend, FindProducts, each once, each only after the previous one has
\* returned; Done is reached only after all four have returned.
C3_StagesInOrder ==
    /\ Len(calls) <= 4
    /\ \A i \in 1..Len(calls) : calls[i].agent = AgentOrder[i]
    /\ \A k \in 1..4 : pc = Stages[k] => (Len(calls) = k /\ Returned = k - 1)
    /\ pc = "Done" => (Len(calls) = 4 /\ Returned = 4)
    /\ pc = "idle" => calls = <<>>

C3_Witness ==
    pc = "Done" /\ Len(calls) = 4 /\ Returned = 4

C6_FailurePropagates ==
    [][ /\ (pc \in Running /\ pc' = "Failed") =>
              /\ calls' = calls
              /\ session_state' = session_state
              /\ page'.exception
              /\ page'.report = <<>> /\ page'.download = <<>>
        /\ (pc \in Running /\ pc' # "Done") => Results(session_state') = Results(session_state)
        /\ pc = "Failed" =>
              /\ pc' \in {"idle", "Detect"}
              /\ pc' = "Detect" => (button' /\ runs' = runs + 1 /\ Len(calls') = 1)
      ]_vars

\* The third call failed in a session that has no report yet.
C6_Witness ==
    /\ pc = "Failed" /\ Len(calls) = 3
    /\ ~ReportStored /\ ~ImageStored

\* C8: a key in session state is never removed or blanked: once a non-empty
\* key was typed, it is present in every later state, holds the last non-empty
\* value typed, also while the field is empty, and is the key the calls use.
C8_StoredKeyIsLastNonEmptyEntry ==
    /\ \A k \in {"openai_api_key", "serp_api_key"} :
          /\ entered[k] # "" => (k \in DOMAIN session_state /\ session_state[k] = entered[k])
          /\ k \in DOMAIN session_state => session_state[k] # ""
    /\ \A i \in 1..Len(calls) :
          /\ calls[i].api_key = entered.openai_api_key
          /\ i = 4 => calls[i].search_key = entered.serp_api_key

\* Both fields have been emptied, the first key was replaced before, and a
\* whole pipeline run used the stored keys.
C8_Witness ==
    /\ openai_api_key = "" /\ serp_api_key = ""
    /\ entered.openai_api_key = "sk-2"
    /\ Len(calls) = 4
    /\ calls[4].api_key = "sk-2" /\ calls[4].search_key = "serp-1"

\* C9 as stated: report and image are stored together, and after every script
\* run the report, the image and the download button are shown exactly when
\* both are stored, the download being the displayed report.
C9_ShownExactlyWhenStored ==
    /\ ReportStored <=> ImageStored
    /\ pc \in Stopped =>
          /\ (page.report # <<>> /\ page.image # NoFile /\ page.download # <<>>)
                 <=> (ReportStored /\ ImageStored)
          /\ page.download = page.report

\* C9 (amended): report and image are stored together, they are written only
\* by the step that completes a run, the image being the one submitted to that
\* run; a script run that runs to its end shows the stored report, the stored
\* image and the download button exactly when both are stored, the download
\* being the displayed report, while a run aborted by a failing stage call
\* shows none of them.
C9_StoredTogetherShownByCompletedRuns ==
    /\ [](/\ ReportStored <=> ImageStored
          /\ pc \in {"idle", "Done"} =>
                IF ReportStored /\ ImageStored
                THEN /\ page.report = session_state["workspace_report"]
                     /\ page.image = session_state["uploaded_image"]
                     /\ page.download = page.report
                     /\ page.report # <<>> /\ page.image # NoFile
                ELSE page.report = <<>> /\ page.image = NoFile /\ page.download = <<>>
          /\ pc = "Failed" =>
                page.report = <<>> /\ page.image = NoFile /\ page.download = <<>>)
    /\ [][Results(session_state') # Results(session_state) =>
              /\ pc = "FindProducts" /\ pc' = "Done"
              /\ session_state'["uploaded_image"] = calls[1].images[1]
              /\ session_state'["uploaded_image"] = uploaded_image
         ]_vars

\* The uploader holds another file than the stored image, and the stored
\* image is the one shown.
C9_Witness ==
    /\ pc = "idle" /\ ReportStored /\ ImageStored
    /\ uploaded_image = "desk2.png"
    /\ session_state["uploaded_image"] = "desk1.jpg"
    /\ page.image = "desk1.jpg"
    /\ page.download = session_state["workspace_report"]

\* C10: a script run that ends without entering the pipeline (a rejected
\* submission, or a rerun without a button press) leaves the stored report
\* and image as they were and, when they are stored, shows them and the
\* download button, next to the validation message if there is one.
C10_RejectedSubmissionKeepsResults ==
    [][pc' = "idle" =>
          /\ Results(session_state') = Results(session_state)
          /\ (ReportStored /\ ImageStored) =>
                /\ page'.report = session_state["workspace_report"]
                /\ page'.image = session_state["uploaded_image"]
                /\ page'.download = session_state["workspace_report"]
      ]_vars

\* A submission without an image after a completed run: the message and the
\* earlier report are on the page.
C10_Witness ==
    /\ pc = "idle" /\ button
    /\ page.errors = <<"Please upload a workspace photo to proceed.">>
    /\ page.report # <<>>
    /\ page.report = session_state["workspace_report"]
    /\ page.image = session_state["uploaded_image"]

====
